---- MODULE Spec2Model ----
(***************************************************************************)
(* PitLink PQC showcase (web/app.js): the priority-aware chunk delivery    *)
(* simulator generateRun and the helpers it calls.                         *)
(*                                                                         *)
(* Numbers.  Math.random() is modelled in hundredths: a draw d stands for  *)
(* the value d/100, 0 <= d <= 99.  Milliseconds are kept in thousandths    *)
(* of a millisecond, so that baseMs * 0.9 * d/100, baseMs * 0.6 and their  *)
(* sums are integers; JavaScript's binary rounding of these products is    *)
(* not modelled.  A quotient is kept as numerator and denominator.  The    *)
(* em dash and the arrow of the string literals are written - and ->.      *)
(***************************************************************************)
EXTENDS Integers, Sequences, FiniteSets, TLC

VARIABLES
    scenario,       \* the argument of generateRun: [priorityConfig, buckets]
    pc,             \* "idle" | "running" | "done": position in generateRun
    b,              \* 1-based index of the bucket buckets.forEach is at
    i,              \* the for loop's counter inside that bucket
    laneDurations,  \* priority -> cumulative effectiveMs (thousandths of ms)
    stats,          \* [delivered, recovered, retransmit, dropped, total]
    chunks,         \* the chunks pushed so far
    chunkIndex,     \* the running id counter
    duration,       \* returned duration (seconds), a quotient
    lossRate,       \* returned lossRate, a quotient
    draws,          \* history: the Math.random() draws of each iteration
    seed,           \* the seed of an injected random source
    rng,            \* the state of the injected random source
    runs,           \* number of generateRun calls started
    prev,           \* history: what the previous generateRun call returned
    currentScenario,  \* the key of the active entry of SCENARIOS
    barcodeRoot,    \* document.querySelector('[data-barcode]') found it
    event,          \* history: the last handler that ran, and its key
    clicks          \* history: number of button clicks handled

vars == <<scenario, pc, b, i, laneDurations, stats, chunks, chunkIndex,
          duration, lossRate, draws, seed, rng, runs, prev,
          currentScenario, barcodeRoot, event, clicks>>

\* the state of the page around generateRun
page == <<currentScenario, barcodeRoot, event, clicks>>

(***************************************************************************)
(* Bounds of the model.                                                    *)
(***************************************************************************)
MaxChunks == 2      \* total chunk count of a bucket list drawn by Init
MaxRuns == 2        \* generateRun calls in a seeded session
MaxClicks == 2      \* button clicks in a page session

(***************************************************************************)
(* Values.                                                                 *)
(***************************************************************************)
Undefined == [undefined |-> TRUE]

Finite(n, d) == [kind |-> "finite", num |-> n, den |-> d]

NegInfinity == [kind |-> "-Infinity", num |-> 0, den |-> 1]

STATUS_LABELS ==
    [delivered  |-> "Delivered cleanly",
     recovered  |-> "Recovered via Reed-Solomon FEC",
     retransmit |-> "Retransmitted over QUIC",
     dropped    |-> "Dropped - manual follow-up"]

\* A falsy string, as the operand of || sees it.
Falsy(s) == s = ""

(***************************************************************************)
(* randomFrom(array), with the draw made explicit.                         *)
(***************************************************************************)
randomFrom(array, draw) == array[((draw * Len(array)) \div 100) + 1]

(***************************************************************************)
(* weightedStatus(priority), with the roll made explicit (hundredths).     *)
(***************************************************************************)
\* mutant: the P0 branch is missing, P0 is sampled with the P1 bands
weightedStatusNoP0Branch(priority, roll) ==
    IF priority \in {"P0", "P1"} THEN
        IF roll < 10 THEN "recovered"
        ELSE IF roll < 16 THEN "retransmit"
        ELSE IF roll < 18 THEN "dropped"
        ELSE "delivered"
    ELSE
        IF roll < 12 THEN "recovered"
        ELSE IF roll < 22 THEN "retransmit"
        ELSE IF roll < 28 THEN "dropped"
        ELSE "delivered"

\* mutant: the P1 dropped band reuses the retransmit bound 0.16
weightedStatusP1NoDrop(priority, roll) ==
    IF priority = "P0" THEN
        IF roll < 8 THEN "recovered"
        ELSE IF roll < 11 THEN "retransmit"
        ELSE "delivered"
    ELSE IF priority = "P1" THEN
        IF roll < 10 THEN "recovered"
        ELSE IF roll < 16 THEN "retransmit"
        ELSE IF roll < 16 THEN "dropped"
        ELSE "delivered"
    ELSE
        IF roll < 12 THEN "recovered"
        ELSE IF roll < 22 THEN "retransmit"
        ELSE IF roll < 28 THEN "dropped"
        ELSE "delivered"

weightedStatus(priority, roll) ==
    IF priority = "P0" THEN
        IF roll < 8 THEN "recovered"
        ELSE IF roll < 11 THEN "retransmit"
        ELSE "delivered"
    ELSE IF priority = "P1" THEN
        IF roll < 10 THEN "recovered"
        ELSE IF roll < 16 THEN "retransmit"
        ELSE IF roll < 18 THEN "dropped"
        ELSE "delivered"
    ELSE
        IF roll < 12 THEN "recovered"
        ELSE IF roll < 22 THEN "retransmit"
        ELSE IF roll < 28 THEN "dropped"
        ELSE "delivered"

(***************************************************************************)
(* The per-bucket constants of generateRun.                                *)
(***************************************************************************)
\* mutant: no fallback to the P0 entry
ConfigOfNoFallback(priorityConfig, priority) ==
    IF priority \in DOMAIN priorityConfig THEN priorityConfig[priority]
    ELSE Undefined

\* priorityConfig[priority] || priorityConfig.P0
ConfigOf(priorityConfig, priority) ==
    IF priority \in DOMAIN priorityConfig THEN priorityConfig[priority]
    ELSE IF "P0" \in DOMAIN priorityConfig THEN priorityConfig["P0"]
    ELSE Undefined

\* mutant: the configured base latency is used only with configured paths
BaseMsOfNeedsPaths(config) ==
    IF /\ "baseMs" \in DOMAIN config
       /\ "pathOptions" \in DOMAIN config
       /\ Len(config.pathOptions) > 0
    THEN config.baseMs
    ELSE 120

\* config && typeof config.baseMs === 'number' ? config.baseMs : 120
BaseMsOf(config) ==
    IF "baseMs" \in DOMAIN config THEN config.baseMs ELSE 120

\* Array.isArray(config?.pathOptions) && length > 0 ? ... : ['Primary link']
PathOptionsOf(config) ==
    IF "pathOptions" \in DOMAIN config /\ Len(config.pathOptions) > 0
    THEN config.pathOptions
    ELSE <<"Primary link">>

\* config?.fec || 'RS(12,9)'
FecCodeOf(config) ==
    IF "fec" \in DOMAIN config /\ ~Falsy(config.fec) THEN config.fec
    ELSE "RS(12,9)"

\* config?.label || priority
LabelOf(config, priority) ==
    IF "label" \in DOMAIN config /\ ~Falsy(config.label) THEN config.label
    ELSE priority

\* pathOptions.find((option) => option !== basePath)
RECURSIVE Find(_, _)
Find(pathOptions, basePath) ==
    IF pathOptions = <<>> THEN Undefined
    ELSE IF Head(pathOptions) # basePath THEN [found |-> Head(pathOptions)]
    ELSE Find(Tail(pathOptions), basePath)

\* pathOptions.find(...) || basePath
AlternateOf(pathOptions, basePath) ==
    LET hit == Find(pathOptions, basePath)
    IN  IF hit # Undefined /\ ~Falsy(hit.found) THEN hit.found ELSE basePath

\* baseMs + Math.random() * baseMs * 0.9, in thousandths of a millisecond
JitteredMs(baseMs, jitter) == baseMs * 1000 + jitter * baseMs * 9

\* mutant: the dropped branch adds the retransmit penalty
PenaltyMsDroppedAsRetransmit(baseMs, status) ==
    IF status \in {"retransmit", "dropped"} THEN baseMs * 600 ELSE 0

\* the += of the retransmit and dropped branches
PenaltyMs(baseMs, status) ==
    IF status = "retransmit" THEN baseMs * 600
    ELSE IF status = "dropped" THEN baseMs * 1000
    ELSE 0

\* 45 + Math.random() * 55, in hundredths
HeightOf(heightDraw) == 4500 + heightDraw * 55

\* mutant: unshift instead of push
Unshift(cs, chunk) == <<chunk>> \o cs

\* chunks.push(chunk)
Push(cs, chunk) == Append(cs, chunk)

\* One pass of the for loop body: the chunk it pushes.
ChunkOf(id, priority, priorityConfig, roll, pathDraw, jitter, heightDraw) ==
    LET config == ConfigOf(priorityConfig, priority)
        baseMs == BaseMsOf(config)
        pathOptions == PathOptionsOf(config)
        fecCode == FecCodeOf(config)
        status == weightedStatus(priority, roll)
        basePath == randomFrom(pathOptions, pathDraw)
        alternate == AlternateOf(pathOptions, basePath)
        effectiveMs == JitteredMs(baseMs, jitter) + PenaltyMs(baseMs, status)
    IN  [id |-> id,
         priority |-> priority,
         status |-> status,
         height |-> HeightOf(heightDraw),
         path |-> IF status = "retransmit"
                  THEN basePath \o " -> " \o alternate
                  ELSE basePath,
         transferMs |-> effectiveMs,
         fec |-> fecCode,
         note |-> CASE status = "recovered" ->
                        STATUS_LABELS[status] \o " (" \o fecCode \o " on "
                            \o basePath \o ")"
                    [] status = "retransmit" ->
                        STATUS_LABELS[status] \o " - switched to " \o alternate
                    [] status = "dropped" ->
                        STATUS_LABELS[status] \o " (" \o fecCode
                            \o " exhausted)"
                    [] OTHER -> STATUS_LABELS[status] \o " via " \o basePath,
         label |-> LabelOf(config, priority)]

\* mutant: the dropped branch forgets its counter
TallyForgetsDropped(st, status) ==
    IF status = "dropped" THEN st ELSE [st EXCEPT ![status] = @ + 1]

\* stats.<status> += 1
Tally(st, status) == [st EXCEPT ![status] = @ + 1]

\* laneDurations[priority] = (laneDurations[priority] || 0) + effectiveMs
AddLane(lanes, priority, effectiveMs) ==
    [k \in DOMAIN lanes \cup {priority} |->
        IF k = priority
        THEN (IF priority \in DOMAIN lanes THEN lanes[priority] ELSE 0)
             + effectiveMs
        ELSE lanes[k]]

\* Math.max(...values): -Infinity for no arguments
MathMax(values) ==
    IF values = {} THEN NegInfinity
    ELSE Finite(CHOOSE m \in values : \A v \in values : v <= m, 1)

\* x / 1000, for x in thousandths of a millisecond
Div1000(x) ==
    IF x.kind = "finite" THEN Finite(x.num, x.den * 1000 * 1000) ELSE x

\* the duration generateRun returns
DurationOf(lanes) ==
    Div1000(MathMax({lanes[k] : k \in DOMAIN lanes}))

\* mutant: the division is not guarded by total > 0
LossRateUnguarded(st, total) ==
    Finite(st.recovered + st.retransmit + st.dropped, total)

\* the lossRate generateRun returns
LossRateOf(st, total) ==
    IF total > 0
    THEN Finite(st.recovered + st.retransmit + st.dropped, total)
    ELSE Finite(0, 1)

(***************************************************************************)
(* Inputs.                                                                 *)
(***************************************************************************)
Priorities == {"P0", "P1", "P2"}

\* SCENARIOS.motorsport.priorityConfig
Motorsport ==
    [P0 |-> [label |-> "P0 - Strategy Delta", baseMs |-> 48,
             pathOptions |-> <<"Trackside 5G", "Low-Earth Orbit">>,
             fec |-> "RS(12,9)"],
     P1 |-> [label |-> "P1 - Engineering Feeds", baseMs |-> 110,
             pathOptions |-> <<"Trackside 5G", "Low-Earth Orbit">>,
             fec |-> "RS(20,16)"],
     P2 |-> [label |-> "P2 - Media + Archives", baseMs |-> 280,
             pathOptions |-> <<"Low-Earth Orbit", "Trackside 5G">>,
             fec |-> "RS(20,18)"]]

\* motorsport without its P2 entry: P2 is an unconfigured priority
ConfigNoP2 == [k \in {"P0", "P1"} |-> Motorsport[k]]

\* no lane configured at all
ConfigEmpty == <<>>

\* no P0 entry; a lane with an empty-named path, a lane with no paths
ConfigNoP0 ==
    [P1 |-> [label |-> "P1 - Engineering Feeds", baseMs |-> 110,
             pathOptions |-> <<"", "Low-Earth Orbit">>,
             fec |-> "RS(20,16)"],
     P2 |-> [label |-> "P2 - Media + Archives", baseMs |-> 280,
             pathOptions |-> <<>>,
             fec |-> "RS(20,18)"]]

\* a single lane, whose entry has no pathOptions at all
ConfigNoPaths ==
    [P1 |-> [label |-> "P1 - Engineering Feeds", baseMs |-> 110,
             fec |-> "RS(20,16)"]]

PriorityConfigs == {ConfigNoP2, ConfigEmpty, ConfigNoP0, ConfigNoPaths}

Bucket(p, n) == [priority |-> p, count |-> n]

RECURSIVE TotalCount(_)
TotalCount(bs) ==
    IF bs = <<>> THEN 0 ELSE Head(bs).count + TotalCount(Tail(bs))

\* bucket lists of at most two buckets and at most MaxChunks chunks
BucketLists ==
    LET B == {Bucket(p, n) : p \in Priorities, n \in 0..MaxChunks}
    IN  {bs \in {<<>>} \cup {<<x>> : x \in B} \cup (B \X B) :
            TotalCount(bs) <= MaxChunks}

\* representative draws of Math.random(), in hundredths
Rolls == {5, 10, 17, 25, 50}
PathDraws == {0, 50}
Jitters == {0, 50}
HeightDraws == {50}

(***************************************************************************)
(* The state machine.                                                      *)
(***************************************************************************)
ZeroStats ==
    [delivered |-> 0, recovered |-> 0, retransmit |-> 0, dropped |-> 0,
     total |-> 0]

NoRun == [chunks |-> <<>>, stats |-> ZeroStats, duration |-> Finite(0, 1),
          lossRate |-> Finite(0, 1)]

InitLocals ==
    /\ pc = "idle"
    /\ b = 1
    /\ i = 0
    /\ laneDurations = <<>>
    /\ stats = ZeroStats
    /\ chunks = <<>>
    /\ chunkIndex = 0
    /\ duration = Finite(0, 1)
    /\ lossRate = Finite(0, 1)
    /\ draws = <<>>
    /\ runs = 0
    /\ prev = NoRun
    /\ currentScenario = "motorsport"
    /\ event = [type |-> "none", key |-> ""]
    /\ clicks = 0

Init ==
    /\ scenario \in [priorityConfig : PriorityConfigs, buckets : BucketLists]
    /\ seed = 0
    /\ rng = 0
    /\ barcodeRoot = TRUE
    /\ InitLocals

\* mutant: the id counter is not a local of the call and is never reset
EnterRunKeepsIndex ==
    /\ b' = 1
    /\ i' = 0
    /\ laneDurations' = [k \in DOMAIN scenario'.priorityConfig |-> 0]
    /\ stats' = ZeroStats
    /\ chunks' = <<>>
    /\ chunkIndex' = chunkIndex
    /\ draws' = <<>>
    /\ pc' = "running"
    /\ runs' = runs + 1

\* generateRun, lines 173-188: the locals before buckets.forEach
EnterRun ==
    /\ b' = 1
    /\ i' = 0
    /\ laneDurations' = [k \in DOMAIN scenario'.priorityConfig |-> 0]
    /\ stats' = ZeroStats
    /\ chunks' = <<>>
    /\ chunkIndex' = 0
    /\ draws' = <<>>
    /\ pc' = "running"
    /\ runs' = runs + 1

GenerateRun ==
    /\ pc = "idle"
    /\ UNCHANGED <<scenario, duration, lossRate, seed, rng, prev, page>>
    /\ EnterRun

\* one pass of the for loop, lines 198-236
Iterate(roll, pathDraw, jitter, heightDraw) ==
    /\ pc = "running"
    /\ b <= Len(scenario.buckets)
    /\ i < scenario.buckets[b].count
    /\ LET priority == scenario.buckets[b].priority
           chunk == ChunkOf(chunkIndex + 1, priority, scenario.priorityConfig,
                            roll, pathDraw, jitter, heightDraw)
       IN  /\ chunkIndex' = chunkIndex + 1
           /\ stats' = Tally(stats, chunk.status)
           /\ laneDurations' =
                  AddLane(laneDurations, priority, chunk.transferMs)
           /\ chunks' = Push(chunks, chunk)
           /\ draws' = Append(draws, [roll |-> roll, pathDraw |-> pathDraw,
                                      jitter |-> jitter,
                                      heightDraw |-> heightDraw])
    /\ i' = i + 1
    /\ UNCHANGED <<scenario, pc, b, duration, lossRate, seed, runs, prev,
                   page>>

\* the loop body with the ambient Math.random()
IterateAmbient ==
    /\ \E roll \in Rolls, pathDraw \in PathDraws, jitter \in Jitters,
          heightDraw \in HeightDraws :
          Iterate(roll, pathDraw, jitter, heightDraw)
    /\ UNCHANGED rng

\* the for loop ends: forEach moves to the next bucket
NextBucket ==
    /\ pc = "running"
    /\ b <= Len(scenario.buckets)
    /\ i >= scenario.buckets[b].count
    /\ b' = b + 1
    /\ i' = 0
    /\ UNCHANGED <<scenario, pc, laneDurations, stats, chunks, chunkIndex,
                   duration, lossRate, draws, seed, rng, runs, prev, page>>

\* lines 239-245: total, duration, lossRate and the return
Finish ==
    /\ pc = "running"
    /\ b > Len(scenario.buckets)
    /\ stats' = [stats EXCEPT !.total = Len(chunks)]
    /\ duration' = DurationOf(laneDurations)
    /\ lossRate' = LossRateOf(stats, Len(chunks))
    /\ pc' = "done"
    /\ UNCHANGED <<scenario, b, i, laneDurations, chunks, chunkIndex, draws,
                   seed, rng, runs, prev, page>>

Next == GenerateRun \/ IterateAmbient \/ NextBucket \/ Finish

Spec == Init /\ [][Next]_vars

(***************************************************************************)
(* Every roll.  One chunk of any priority, known or not, with the roll     *)
(* drawn from all the hundredths of [0,1).                                 *)
(***************************************************************************)
AllRolls == 0..99

InitRolls ==
    /\ scenario \in [priorityConfig : PriorityConfigs,
                     buckets : {<<Bucket(p, 1)>> : p \in Priorities \cup {"P3"}}]
    /\ seed = 0
    /\ rng = 0
    /\ barcodeRoot = TRUE
    /\ InitLocals

IterateAnyRoll ==
    /\ \E roll \in AllRolls, pathDraw \in PathDraws, jitter \in Jitters,
          heightDraw \in HeightDraws :
          Iterate(roll, pathDraw, jitter, heightDraw)
    /\ UNCHANGED rng

NextRolls == GenerateRun \/ IterateAnyRoll \/ NextBucket \/ Finish

SpecRolls == InitRolls /\ [][NextRolls]_vars

(***************************************************************************)
(* A seeded session.  The random source is a fixed-sequence stub: a tape   *)
(* of draws read cyclically from the position the seed gives.  The rerun   *)
(* button calls renderRun, which calls generateRun on the same scenario;   *)
(* the stub is rewound to its seed for the rerun.                          *)
(***************************************************************************)
StubTape ==
    <<50,  0,  0, 50,
       5, 50, 50, 50,
      10,  0, 50, 50,
      17, 50,  0, 50,
      25,  0,  0, 50,
      99, 99, 99, 99>>

Seeds == {0, 1, 2, 3}

\* the value the stub returns at state r, and its next state
StubValue(r) == StubTape[(r % Len(StubTape)) + 1]
StubNext(r) == (r + 1) % Len(StubTape)

\* the batches of the 30-chunk scenario
ThirtyBuckets == <<Bucket("P0", 10), Bucket("P1", 10), Bucket("P2", 10)>>

InitSeeded ==
    /\ scenario = [priorityConfig |-> Motorsport, buckets |-> ThirtyBuckets]
    /\ seed \in Seeds
    /\ rng = seed
    /\ barcodeRoot = TRUE
    /\ InitLocals

\* the loop body, its four Math.random() calls served by the stub in order:
\* weightedStatus, randomFrom, the jitter, the height
IterateSeeded ==
    LET r1 == rng
        r2 == StubNext(r1)
        r3 == StubNext(r2)
        r4 == StubNext(r3)
    IN  /\ Iterate(StubValue(r1), StubValue(r2), StubValue(r3), StubValue(r4))
        /\ rng' = StubNext(r4)

\* rerunButton click -> renderRun -> generateRun(currentScenario)
Rerun ==
    /\ pc = "done"
    /\ runs < MaxRuns
    /\ prev' = [chunks |-> chunks, stats |-> stats, duration |-> duration,
                lossRate |-> lossRate]
    /\ rng' = seed
    /\ UNCHANGED <<scenario, duration, lossRate, seed, page>>
    /\ EnterRun

NextSeeded == GenerateRun \/ IterateSeeded \/ NextBucket \/ Finish \/ Rerun

SpecSeeded == InitSeeded /\ [][NextSeeded]_vars

(***************************************************************************)
(* The page.  applyScenario and renderRun run to completion before the     *)
(* next click is handled: a click is taken only while no generateRun call  *)
(* is in progress.  The loop passes of a call draw from the stub.          *)
(***************************************************************************)
\* SCENARIOS.mobility.priorityConfig
Mobility ==
    [P0 |-> [label |-> "P0 - Safety Kernel", baseMs |-> 42,
             pathOptions |-> <<"C-V2X 5G", "Satellite Backhaul">>,
             fec |-> "RS(12,9)"],
     P1 |-> [label |-> "P1 - Fleet Telemetry", baseMs |-> 95,
             pathOptions |-> <<"C-V2X 5G", "Edge Mesh">>,
             fec |-> "RS(18,14)"],
     P2 |-> [label |-> "P2 - HD Map + Media", baseMs |-> 230,
             pathOptions |-> <<"Edge Mesh", "Satellite Backhaul">>,
             fec |-> "RS(20,18)"]]

\* SCENARIOS.manufacturing.priorityConfig
Manufacturing ==
    [P0 |-> [label |-> "P0 - Safety Interlocks", baseMs |-> 55,
             pathOptions |-> <<"Fiber Backbone", "Industrial 5G">>,
             fec |-> "RS(18,13)"],
     P1 |-> [label |-> "P1 - Machine Telemetry", baseMs |-> 130,
             pathOptions |-> <<"Industrial 5G", "Fiber Backbone">>,
             fec |-> "RS(20,15)"],
     P2 |-> [label |-> "P2 - Sustainability Ledger", baseMs |-> 260,
             pathOptions |-> <<"LoRa Supervisory", "Fiber Backbone">>,
             fec |-> "RS(22,18)"]]

\* SCENARIOS: the priorityConfig and buckets of each entry
SCENARIOS ==
    [motorsport |->
        [priorityConfig |-> Motorsport,
         buckets |-> <<Bucket("P0", 18), Bucket("P1", 22), Bucket("P2", 26)>>],
     mobility |->
        [priorityConfig |-> Mobility,
         buckets |-> <<Bucket("P0", 20), Bucket("P1", 28), Bucket("P2", 18)>>],
     manufacturing |->
        [priorityConfig |-> Manufacturing,
         buckets |-> <<Bucket("P0", 16), Bucket("P1", 24), Bucket("P2", 20)>>]]

\* the values button.dataset.scenarioOption may carry: the keys of SCENARIOS
\* and one that is none of them
ButtonKeys == DOMAIN SCENARIOS \cup {"telehealth"}

\* what a generateRun call owns, its return value aside
runLocals ==
    <<scenario, pc, b, i, laneDurations, stats, chunks, chunkIndex, draws,
      runs>>

\* renderRun, lines 253-255: nothing without the barcode element, else
\* generateRun(cur), cur being what currentScenario holds at the call
renderRun(cur) ==
    IF barcodeRoot
    THEN /\ scenario' = SCENARIOS[cur]
         /\ EnterRun
    ELSE UNCHANGED runLocals

\* mutant: renderRun is called before currentScenario is assigned
applyScenarioRendersFirst(key) ==
    IF key \notin DOMAIN SCENARIOS
    THEN UNCHANGED <<currentScenario, runLocals>>
    ELSE /\ currentScenario' = key
         /\ renderRun(currentScenario)

\* applyScenario(key), lines 279-320
applyScenario(key) ==
    IF key \notin DOMAIN SCENARIOS
    THEN UNCHANGED <<currentScenario, runLocals>>
    ELSE /\ currentScenario' = key
         /\ renderRun(key)

\* no generateRun call is in progress
Quiet == pc \in {"idle", "done"}

InitUI ==
    /\ scenario = SCENARIOS["motorsport"]
    /\ seed \in Seeds
    /\ rng = seed
    /\ barcodeRoot \in BOOLEAN
    /\ InitLocals

\* line 336: applyScenario('motorsport') as the module loads
LoadPage ==
    /\ Quiet
    /\ event.type = "none"
    /\ event' = [type |-> "load", key |-> "motorsport"]
    /\ applyScenario("motorsport")
    /\ UNCHANGED <<duration, lossRate, seed, rng, prev, barcodeRoot, clicks>>

\* lines 322-328: a scenario button is clicked
ScenarioClick ==
    /\ Quiet
    /\ event.type # "none"
    /\ clicks < MaxClicks
    /\ \E key \in ButtonKeys :
          /\ event' = [type |-> "scenario", key |-> key]
          /\ applyScenario(key)
    /\ clicks' = clicks + 1
    /\ UNCHANGED <<duration, lossRate, seed, rng, prev, barcodeRoot>>

\* lines 330-334: the rerun button is clicked
RerunClick ==
    /\ Quiet
    /\ event.type # "none"
    /\ clicks < MaxClicks
    /\ event' = [type |-> "rerun", key |-> ""]
    /\ renderRun(currentScenario)
    /\ clicks' = clicks + 1
    /\ UNCHANGED <<duration, lossRate, seed, rng, prev, barcodeRoot,
                   currentScenario>>

NextUI ==
    LoadPage \/ ScenarioClick \/ RerunClick \/ IterateSeeded \/ NextBucket
        \/ Finish

SpecUI == InitUI /\ [][NextUI]_vars

(***************************************************************************)
(* Claims.                                                                 *)
(***************************************************************************)
Returned == pc = "done"

ChunkIds == 1..Len(chunks)

StatusKinds == {"delivered", "recovered", "retransmit", "dropped"}

CountOf(status) == Cardinality({k \in ChunkIds : chunks[k].status = status})

\* C1: no chunk of priority P0 has status dropped, at any point of any run,
\* whatever was drawn.
C1_P0NeverDropped ==
    \A k \in ChunkIds :
        chunks[k].priority = "P0" => chunks[k].status # "dropped"

\* C1 witness: a returned run with a P0 chunk whose roll (0.25) drops a chunk
\* of another priority in the same run.
C1_Witness ==
    /\ Returned
    /\ \E j, k \in ChunkIds :
          /\ chunks[j].priority = "P0" /\ draws[j].roll = 25
          /\ chunks[k].priority # "P0" /\ draws[k].roll = 25
          /\ chunks[k].status = "dropped"

\* C2: in a returned run the four counters add up to total, total is the
\* length of the chunk sequence, each counter is the number of chunks with
\* that status, and every chunk has one of the four statuses.
C2_StatsTally ==
    Returned =>
        /\ stats.total = Len(chunks)
        /\ stats.delivered + stats.recovered + stats.retransmit
               + stats.dropped = stats.total
        /\ \A s \in StatusKinds : stats[s] = CountOf(s)
        /\ \A k \in ChunkIds : chunks[k].status \in StatusKinds

\* C2 witness: a returned run of two chunks, one of them dropped.
C2_Witness ==
    /\ Returned
    /\ Len(chunks) = 2
    /\ stats.dropped = 1
    /\ stats.delivered = 1

\* the priorities of the chunks a bucket list asks for, in order
RECURSIVE Expand(_)
Expand(bs) ==
    IF bs = <<>> THEN <<>>
    ELSE [k \in 1..Head(bs).count |-> Head(bs).priority] \o Expand(Tail(bs))

\* C3: the k-th chunk has id k at every point of the run, and a returned
\* run lists the chunks bucket by bucket in the given order.
C3_IdsSequential ==
    /\ \A k \in ChunkIds : chunks[k].id = k
    /\ chunkIndex = Len(chunks)
    /\ Returned =>
          /\ Len(chunks) = Len(Expand(scenario.buckets))
          /\ \A k \in ChunkIds :
                chunks[k].priority = Expand(scenario.buckets)[k]

\* C3 witness: a returned run of two buckets of the same priority, one chunk
\* each.
C3_Witness ==
    /\ Returned
    /\ Len(scenario.buckets) = 2
    /\ scenario.buckets[1].priority = scenario.buckets[2].priority
    /\ scenario.buckets[1].count = 1
    /\ scenario.buckets[2].count = 1
    /\ Len(chunks) = 2

\* the chunks of priorities with no entry in the lane configuration
Unconfigured ==
    {k \in ChunkIds : chunks[k].priority \notin DOMAIN scenario.priorityConfig}

Range(f) == {f[x] : x \in DOMAIN f}

\* the chunk k was simulated on a lane with this base latency, these
\* candidate paths and this FEC label
SimulatedWith(k, baseMs, paths, fecLabel) ==
    LET primary == paths[((draws[k].pathDraw * Len(paths)) \div 100) + 1]
        penalty == CASE chunks[k].status = "retransmit" -> 600 * baseMs
                     [] chunks[k].status = "dropped" -> 1000 * baseMs
                     [] OTHER -> 0
    IN  /\ chunks[k].transferMs
               = 1000 * baseMs + 9 * draws[k].jitter * baseMs + penalty
        /\ chunks[k].fec = fecLabel
        /\ IF chunks[k].status = "retransmit"
           THEN \E q \in Range(paths) :
                    chunks[k].path = primary \o " -> " \o q
           ELSE chunks[k].path = primary

RECURSIVE LaneSum(_, _)
LaneSum(cs, priority) ==
    IF cs = <<>> THEN 0
    ELSE (IF Head(cs).priority = priority THEN Head(cs).transferMs ELSE 0)
         + LaneSum(Tail(cs), priority)

\* the quotient q is the number n/d
IsQuotient(q, n, d) ==
    /\ q.kind = "finite"
    /\ q.den > 0
    /\ q.num * d = n * q.den

\* C5: a returned duration is >= 0; it is 0 when total is 0; otherwise it is
\* the largest per-priority sum of transferMs (in ms), divided by 1000, that
\* is the largest sum in thousandths of a millisecond over 1000 * 1000.
C5_Duration ==
    Returned =>
        /\ duration.kind = "finite"
        /\ duration.den > 0
        /\ duration.num >= 0
        /\ stats.total = 0 => duration.num = 0
        /\ stats.total > 0 =>
              \E p \in Range([k \in ChunkIds |-> chunks[k].priority]) :
                  /\ \A q \in Range([k \in ChunkIds |-> chunks[k].priority]) :
                        LaneSum(chunks, q) <= LaneSum(chunks, p)
                  /\ duration.num = LaneSum(chunks, p)
                  /\ duration.den = 1000 * 1000

\* C6: a returned lossRate is (recovered + retransmit + dropped) / total when
\* total > 0 and 0 when total is 0; it lies in [0,1] and has no zero divisor.
C6_LossRate ==
    Returned =>
        /\ lossRate.kind = "finite"
        /\ lossRate.den > 0
        /\ 0 <= lossRate.num
        /\ lossRate.num <= lossRate.den
        /\ IF stats.total > 0
           THEN IsQuotient(lossRate,
                           stats.recovered + stats.retransmit + stats.dropped,
                           stats.total)
           ELSE lossRate.num = 0

\* C6 witness: a returned run of two chunks, one of them lost, lossRate 1/2.
C6_Witness ==
    /\ Returned
    /\ stats.total = 2
    /\ stats.delivered = 1
    /\ IsQuotient(lossRate, 1, 2)

\* the cumulative bands of the sampler: the upper ends, in hundredths, of the
\* recovered, retransmit and dropped bands
Bands(priority) ==
    CASE priority = "P0" -> [recovered |-> 8, retransmit |-> 11, dropped |-> 11]
      [] priority = "P1" -> [recovered |-> 10, retransmit |-> 16, dropped |-> 18]
      [] OTHER -> [recovered |-> 12, retransmit |-> 22, dropped |-> 28]

BandOutcome(priority, roll) ==
    LET band == Bands(priority)
    IN  CASE 0 <= roll /\ roll < band.recovered -> "recovered"
          [] band.recovered <= roll /\ roll < band.retransmit -> "retransmit"
          [] band.retransmit <= roll /\ roll < band.dropped -> "dropped"
          [] OTHER -> "delivered"

\* C7: every chunk's status is the outcome of the band its roll falls in, by
\* the table of its priority (P0, P1, any other); in particular (P0, 0.05) is
\* recovered, (P0, 0.50) delivered, (P1, 0.17) dropped, (P2, 0.25) dropped.
C7_SamplerBands ==
    \A k \in ChunkIds :
        LET p == chunks[k].priority
            r == draws[k].roll
            st == chunks[k].status
        IN  /\ st = BandOutcome(p, r)
            /\ p = "P0" /\ r = 5 => st = "recovered"
            /\ p = "P0" /\ r = 50 => st = "delivered"
            /\ p = "P1" /\ r = 17 => st = "dropped"
            /\ p = "P2" /\ r = 25 => st = "dropped"

\* C7 witness: a returned chunk of the unknown priority P3, rolled 0.25,
\* dropped.
C7_Witness ==
    /\ Returned
    /\ \E k \in ChunkIds :
          /\ chunks[k].priority = "P3"
          /\ draws[k].roll = 25
          /\ chunks[k].status = "dropped"

\* the candidate path list of the lane a chunk was simulated on
LanePaths(k) ==
    LET config == ConfigOf(scenario.priorityConfig, chunks[k].priority)
    IN  IF "pathOptions" \in DOMAIN config /\ config.pathOptions # <<>>
        THEN config.pathOptions
        ELSE <<"Primary link">>

\* the first entry of paths that differs from primary, else primary
FirstOther(paths, primary) ==
    LET others == {n \in DOMAIN paths : paths[n] # primary}
    IN  IF others = {} THEN primary
        ELSE paths[CHOOSE n \in others : \A m \in others : n <= m]

\* C8: a retransmitted chunk's path is "{primary} -> {fallback}", fallback
\* being the first candidate path that differs from the primary, or the
\* primary itself when none differs; any other chunk's path is the primary,
\* a member of the lane's candidate paths.
C8_RetransmitPath ==
    \A k \in ChunkIds :
        LET paths == LanePaths(k)
            primary == paths[((draws[k].pathDraw * Len(paths)) \div 100) + 1]
        IN  IF chunks[k].status = "retransmit"
            THEN chunks[k].path
                     = primary \o " -> " \o FirstOther(paths, primary)
            ELSE /\ chunks[k].path = primary
                 /\ chunks[k].path \in Range(paths)

\* the base latency of the lane a chunk was simulated on
LaneBaseMs(k) ==
    LET config == ConfigOf(scenario.priorityConfig, chunks[k].priority)
    IN  IF "baseMs" \in DOMAIN config THEN config.baseMs ELSE 120

\* C9: transferMs is the base latency plus a jitter of draw * 0.9 * base, in
\* [0, 0.9 * base), plus 0 for delivered and recovered, 0.6 * base for
\* retransmit and base for dropped; so transferMs >= base >= 0; and base 48,
\* delivered, jitter 0 gives exactly 48 ms.
C9_TransferMs ==
    \A k \in ChunkIds :
        LET base == LaneBaseMs(k)
            st == chunks[k].status
            penalty == CASE st = "retransmit" -> 600 * base
                         [] st = "dropped" -> 1000 * base
                         [] OTHER -> 0
            jitterMs == chunks[k].transferMs - 1000 * base - penalty
        IN  /\ jitterMs = 9 * draws[k].jitter * base
            /\ 0 <= jitterMs
            /\ jitterMs < 900 * base
            /\ chunks[k].transferMs >= 1000 * base
            /\ base >= 0
            /\ base = 48 /\ st = "delivered" /\ draws[k].jitter = 0
                   => chunks[k].transferMs = 48 * 1000

\* C9 witness: the run of one P0 chunk on the motorsport P0 lane, outcome
\* draw 0.5, path draw 0, jitter 0: id 1, delivered on the first path, 48 ms.
C9_Witness ==
    /\ Returned
    /\ scenario.buckets = <<Bucket("P0", 1)>>
    /\ "P0" \in DOMAIN scenario.priorityConfig
    /\ Len(chunks) = 1
    /\ draws[1].roll = 50 /\ draws[1].pathDraw = 0 /\ draws[1].jitter = 0
    /\ chunks[1].id = 1
    /\ chunks[1].priority = "P0"
    /\ chunks[1].status = "delivered"
    /\ chunks[1].path = scenario.priorityConfig["P0"].pathOptions[1]
    /\ chunks[1].transferMs = 48 * 1000

\* what the current call returned
Result ==
    [chunks |-> chunks, stats |-> stats, duration |-> duration,
     lossRate |-> lossRate]

\* C10: a rerun on the same scenario with the same draws returns the same
\* chunks and statistics; two chunks of the same priority with the same
\* outcome roll have the same status, and with the same jitter draw too the
\* same transferMs, whatever the chunks around them drew; the run of the
\* batches (P0,10), (P1,10), (P2,10) has 30 chunks.
C10_Deterministic ==
    /\ Returned /\ runs >= 2 => Result = prev
    /\ \A j, k \in ChunkIds :
          chunks[j].priority = chunks[k].priority
              /\ draws[j].roll = draws[k].roll
          => /\ chunks[j].status = chunks[k].status
             /\ draws[j].jitter = draws[k].jitter
                    => chunks[j].transferMs = chunks[k].transferMs
    /\ Returned => stats.total = 30 /\ Len(chunks) = 30

\* C10 witness: the second run of a session has returned, and it holds two
\* chunks of one priority with the same draws whose neighbours drew
\* differently, one dropped chunk among them all.
C10_Witness ==
    /\ Returned
    /\ runs = 2
    /\ Len(prev.chunks) = 30
    /\ \E k \in ChunkIds : chunks[k].status = "dropped"
    /\ \E j, k \in ChunkIds :
          /\ j + 1 < k
          /\ chunks[j].priority = chunks[k].priority
          /\ draws[j].roll = draws[k].roll
          /\ draws[j].jitter = draws[k].jitter
          /\ draws[j + 1].roll # draws[k - 1].roll

\* the chunks of configured priorities whose lane entry has an empty
\* candidate path list, or none
PathlessLane ==
    {k \in ChunkIds :
        /\ chunks[k].priority \in DOMAIN scenario.priorityConfig
        /\ LET entry == scenario.priorityConfig[chunks[k].priority]
           IN  \/ "pathOptions" \notin DOMAIN entry
               \/ entry.pathOptions = <<>>}

\* C11: every chunk of a lane whose entry has an empty or missing candidate
\* path list has path "Primary link", or "Primary link -> Primary link" on
\* retransmit, and carries the entry's own base latency and FEC label.
C11_PathlessLaneUsesPrimaryLink ==
    \A k \in PathlessLane :
        LET entry == scenario.priorityConfig[chunks[k].priority]
            base == entry.baseMs
            st == chunks[k].status
            penalty == CASE st = "retransmit" -> 600 * base
                         [] st = "dropped" -> 1000 * base
                         [] OTHER -> 0
        IN  /\ chunks[k].path = IF st = "retransmit"
                                THEN "Primary link -> Primary link"
                                ELSE "Primary link"
            /\ chunks[k].fec = entry.fec
            /\ chunks[k].transferMs
                   = 1000 * base + 9 * draws[k].jitter * base + penalty

\* C11 witness: a returned run with a retransmitted chunk of a lane whose
\* entry has no pathOptions and a delivered chunk of such a lane.
C11_Witness ==
    /\ Returned
    /\ \E j, k \in PathlessLane :
          /\ "pathOptions" \notin
                 DOMAIN scenario.priorityConfig[chunks[j].priority]
          /\ chunks[j].status = "retransmit"
          /\ chunks[j].path = "Primary link -> Primary link"
          /\ chunks[k].status = "delivered"
          /\ chunks[k].path = "Primary link"

\* a handler ran in this step
HandlerRan == event' # event \/ clicks' # clicks

\* the step starts a generateRun call on the scenario of this key
RunStartedFrom(key) ==
    /\ runs' = runs + 1
    /\ scenario' = SCENARIOS[key]
    /\ pc' = "running"
    /\ chunks' = <<>>

\* the step starts no generateRun call and leaves the last run as it is
NoRunStarted == UNCHANGED <<runLocals, duration, lossRate>>

\* the returned run is a run of the active scenario
RunOfActiveScenario ==
    Returned =>
        /\ scenario = SCENARIOS[currentScenario]
        /\ Len(chunks) = TotalCount(SCENARIOS[currentScenario].buckets)
        /\ \A k \in ChunkIds :
              chunks[k].priority = Expand(SCENARIOS[currentScenario].buckets)[k]

\* the effect C12 states for the handler of this step
StepAsStated ==
    HandlerRan =>
        CASE event'.type = "rerun" ->
                 /\ currentScenario' = currentScenario
                 /\ RunStartedFrom(currentScenario)
          [] event'.type # "rerun" /\ event'.key \in DOMAIN SCENARIOS ->
                 /\ currentScenario' = event'.key
                 /\ RunStartedFrom(event'.key)
          [] OTHER ->
                 /\ currentScenario' = currentScenario
                 /\ NoRunStarted

StepWithBarcodeGuard ==
    HandlerRan =>
        CASE event'.type = "rerun" ->
                 /\ currentScenario' = currentScenario
                 /\ IF barcodeRoot THEN RunStartedFrom(currentScenario)
                    ELSE NoRunStarted
          [] event'.type # "rerun" /\ event'.key \in DOMAIN SCENARIOS ->
                 /\ currentScenario' = event'.key
                 /\ IF barcodeRoot THEN RunStartedFrom(event'.key)
                    ELSE NoRunStarted
          [] OTHER ->
                 /\ currentScenario' = currentScenario
                 /\ NoRunStarted

====
